---- MODULE Spec2Model ----
(***************************************************************************)
(* Model of the object-store metadata table of                             *)
(* crates/data_components/src/metadata/object.rs: the table provider       *)
(* (try_new, schema, constraints, scan, supports_filters_pushdown), the    *)
(* execution plan (execute) and the generator behind to_sendable_stream,   *)
(* driven by a consumer that polls the row stream; followed by the model   *)
(* of the vector distance function of                                      *)
(* crates/runtime/src/embeddings/array_distance.rs.                        *)
(***************************************************************************)
EXTENDS Integers, Sequences, FiniteSets, TLC

VARIABLES
    store,      \* the objects (and listing errors) the backend delivers, in order
    table,      \* outcome of ObjectStoreMetadataTable::try_new
    pushdown,   \* per scan: the engine's supports_filters_pushdown query, if any
    plans,      \* per scan: the ObjectStoreMetadataExec built by scan
    streams,    \* per scan: the stream built by execute and its generator state
    call,       \* last direct call of a provider function and its result
    chat        \* the chat_stream call of a chat model, if any, and its stream

vars == <<store, table, pushdown, plans, streams, call, chat>>

----------------------------------------------------------------------------
(* Bounds of the model *)

MaxLen == 3          \* longest backend listing
MaxLimit == 2        \* largest LIMIT passed to scan
MaxReady == 2        \* most backend items ready within one poll of the stream
MaxBatch == 3        \* longest descriptor list given to to_record_batch directly
MaxLenConc == 2      \* longest backend listing when two scans run concurrently

ScanIds == {1, 2}

----------------------------------------------------------------------------
(* Option and Result values *)

None == [some |-> FALSE]
Some(x) == [some |-> TRUE, val |-> x]
Ok(x) == [ok |-> TRUE, val |-> x]
Err(e) == [ok |-> FALSE, err |-> e]

----------------------------------------------------------------------------
(* Paths of the object store: a path is a sequence of segments, a segment  *)
(* a sequence of characters.                                               *)

RECURSIVE PathFromChars(_, _, _)
\* Path::from(String): split on the delimiter, dropping empty segments
PathFromChars(chars, i, cur) ==
    IF i > Len(chars)
    THEN IF cur = <<>> THEN <<>> ELSE <<cur>>
    ELSE IF chars[i] = "/"
         THEN (IF cur = <<>> THEN <<>> ELSE <<cur>>) \o PathFromChars(chars, i + 1, <<>>)
         ELSE PathFromChars(chars, i + 1, Append(cur, chars[i]))

PathFrom(chars) == PathFromChars(chars, 1, <<>>)

RECURSIVE PathToString(_)
\* Display of a Path: the segments joined by the delimiter
PathToString(path) ==
    IF path = <<>> THEN <<>>
    ELSE IF Len(path) = 1 THEN path[1]
    ELSE path[1] \o <<"/">> \o PathToString(Tail(path))

\* Path::filename: the final segment, none for the empty path
Filename(path) == IF path = <<>> THEN None ELSE Some(path[Len(path)])

\* a prefix matches on whole segments and never the object itself
PrefixMatch(path, prefix) ==
    /\ Len(prefix) < Len(path)
    /\ SubSeq(path, 1, Len(prefix)) = prefix

----------------------------------------------------------------------------
(* Regular expressions: the subset ^? (literal | .)* $? ; a parenthesis    *)
(* that is not closed does not compile.                                    *)

ParenDepth(src, n) ==
    Cardinality({i \in 1..n : src[i] = "("}) - Cardinality({i \in 1..n : src[i] = ")"})

RegexNew(src) ==
    IF \/ \E n \in 1..Len(src) : ParenDepth(src, n) < 0
       \/ ParenDepth(src, Len(src)) # 0
    THEN Err("regex parse error")
    ELSE LET s == Len(src) > 0 /\ src[1] = "^"
             r1 == IF s THEN Tail(src) ELSE src
             e == Len(r1) > 0 /\ r1[Len(r1)] = "$"
             body == IF e THEN SubSeq(r1, 1, Len(r1) - 1) ELSE r1
         IN  Ok([anchorStart |-> s, anchorEnd |-> e, body |-> body])

MatchAt(body, text, i) ==
    /\ i + Len(body) - 1 <= Len(text)
    /\ \A k \in 1..Len(body) : body[k] = "." \/ body[k] = text[i + k - 1]

\* Regex::is_match: an unanchored search
IsMatch(regex, text) ==
    \E i \in 1..(Len(text) + 1) :
        /\ MatchAt(regex.body, text, i)
        /\ regex.anchorStart => i = 1
        /\ regex.anchorEnd => i + Len(regex.body) - 1 = Len(text)

----------------------------------------------------------------------------
(* Object descriptors and backend listings *)

ObjRoot == [location |-> <<>>, last_modified |-> [secs |-> 0, nanos |-> 999999],
            size |-> 0, e_tag |-> None, version |-> None]
ObjA == [location |-> << <<"a">> >>, last_modified |-> [secs |-> 1, nanos |-> 2500000],
         size |-> 1, e_tag |-> Some("e1"), version |-> None]
ObjDB == [location |-> << <<"d">>, <<"b">> >>, last_modified |-> [secs |-> 3, nanos |-> 1000000],
          size |-> 3, e_tag |-> None, version |-> Some("v3")]

Objects == {ObjRoot, ObjA, ObjDB}

ListingError == "listing failed"

Items == {Ok(o) : o \in Objects} \cup {Err(ListingError)}

\* listings of at most n items, no item twice
Listings(n) ==
    UNION {{f \in [1..k -> Items] : \A i, j \in 1..k : i # j => f[i] # f[j]} : k \in 0..n}

RECURSIVE SelectItems(_, _)
SelectItems(items, prefix) ==
    IF items = <<>> THEN <<>>
    ELSE LET it == Head(items)
             keep == ~it.ok \/ PrefixMatch(it.val.location, prefix)
         IN  (IF keep THEN <<it>> ELSE <<>>) \o SelectItems(Tail(items), prefix)

\* store.list(prefix.map(Path::from)): the items under the prefix, in backend order
List(prefix) ==
    IF prefix.some THEN SelectItems(store, PathFrom(prefix.val)) ELSE store

----------------------------------------------------------------------------
(* Schema and batches *)

Field(name, type, nullable) == [name |-> name, type |-> type, nullable |-> nullable]

\* ObjectStoreMetadataTable::table_schema
table_schema ==
    << Field("location", "Utf8", FALSE),
       Field("last_modified", "Timestamp(Millisecond, None)", FALSE),
       Field("size", "UInt64", FALSE),
       Field("e_tag", "Utf8", TRUE),
       Field("version", "Utf8", TRUE) >>

\* TableProvider::schema
schema == table_schema

\* DateTime::timestamp_millis
timestamp_millis(t) == t.secs * 1000 + (t.nanos \div 1000000)

\* `meta.size as u64`: usize is at most 64 bits wide, the cast keeps the value
as_u64(n) == n

Column(type, values) == [type |-> type, values |-> values]

\* RecordBatch::try_new: the columns must fit the schema in number, type, length
\* and nullability
RecordBatchTryNew(sch, columns) ==
    IF Len(sch) # Len(columns)
    THEN Err("number of columns must match number of fields in schema")
    ELSE IF \E i \in 1..Len(columns) : Len(columns[i].values) # Len(columns[1].values)
    THEN Err("all columns in a record batch must have the same length")
    ELSE IF \E i \in 1..Len(columns) : columns[i].type # sch[i].type
    THEN Err("column types must match schema types")
    ELSE IF \E i \in 1..Len(columns) :
                ~sch[i].nullable /\ \E r \in 1..Len(columns[i].values) : ~columns[i].values[r].some
    THEN Err("column declared non-nullable contains null values")
    ELSE Ok([schema |-> sch, columns |-> columns])

\* the arrays of to_record_batch handed over with size before last_modified
MetaColumnsSizeFirst(meta_list) ==
    << Column("Utf8", [i \in 1..Len(meta_list) |-> Some(PathToString(meta_list[i].location))]),
       Column("UInt64", [i \in 1..Len(meta_list) |-> Some(as_u64(meta_list[i].size))]),
       Column("Timestamp(Millisecond, None)",
              [i \in 1..Len(meta_list) |-> Some(timestamp_millis(meta_list[i].last_modified))]),
       Column("Utf8", [i \in 1..Len(meta_list) |-> meta_list[i].e_tag]),
       Column("Utf8", [i \in 1..Len(meta_list) |-> meta_list[i].version]) >>

\* the five arrays of ObjectStoreMetadataTable::to_record_batch, in the order given
\* to RecordBatch::try_new
MetaColumns(meta_list) ==
    << Column("Utf8", [i \in 1..Len(meta_list) |-> Some(PathToString(meta_list[i].location))]),
       Column("Timestamp(Millisecond, None)",
              [i \in 1..Len(meta_list) |-> Some(timestamp_millis(meta_list[i].last_modified))]),
       Column("UInt64", [i \in 1..Len(meta_list) |-> Some(as_u64(meta_list[i].size))]),
       Column("Utf8", [i \in 1..Len(meta_list) |-> meta_list[i].e_tag]),
       Column("Utf8", [i \in 1..Len(meta_list) |-> meta_list[i].version]) >>

\* ObjectStoreMetadataTable::to_record_batch
to_record_batch(meta_list) == RecordBatchTryNew(table_schema, MetaColumns(meta_list))

\* project_schema: the fields at the projected (0-based) indices
project_schema(sch, projection) ==
    IF projection.some
    THEN [i \in 1..Len(projection.val) |-> sch[projection.val[i] + 1]]
    ELSE sch

----------------------------------------------------------------------------
(* Table provider *)

\* try_new that drops a pattern it cannot compile instead of failing
try_new_lenient(st, prefix, filename_regex) ==
    LET compiled == IF filename_regex.some THEN Some(RegexNew(filename_regex.val)) ELSE None
    IN  Ok([store |-> st, prefix |-> prefix,
            filename_regex |-> IF compiled.some /\ compiled.val.ok
                               THEN Some(compiled.val.val) ELSE None])

\* ObjectStoreMetadataTable::try_new
try_new(st, prefix, filename_regex) ==
    LET compiled == IF filename_regex.some THEN Some(RegexNew(filename_regex.val)) ELSE None
    IN  IF compiled.some /\ ~compiled.val.ok
        THEN Err(compiled.val.err)
        ELSE Ok([store |-> st, prefix |-> prefix,
                 filename_regex |-> IF compiled.some THEN Some(compiled.val.val) ELSE None])

PrimaryKey(cols) == [constraint |-> "PrimaryKey", columns |-> cols]

\* ObjectStoreMetadataTable::constraints (inherent method)
constraints(t) == << PrimaryKey(<<0>>) >>

\* <ObjectStoreMetadataTable as TableProvider>::constraints
TableProvider_constraints(t) == None

\* ObjectStoreMetadataTable::supports_filters_pushdown
supports_filters_pushdown(t, filters) == Ok([i \in 1..Len(filters) |-> "Unsupported"])

\* ObjectStoreMetadataExec::new
ObjectStoreMetadataExec_new(projected_schema, filters, limit, st, prefix, filename_regex) ==
    [projected_schema |-> projected_schema, filters |-> filters, limit |-> limit,
     partitioning |-> 1, store |-> st, prefix |-> prefix, filename_regex |-> filename_regex]

\* ObjectStoreMetadataTable::scan
scan(t, projection, filters, limit) ==
    ObjectStoreMetadataExec_new(project_schema(schema, projection), filters, limit,
                                t.store, t.prefix, t.filename_regex)

----------------------------------------------------------------------------
(* The row stream *)

\* filename_in_scan that falls through to false
filename_in_scan_default_false(location, filename_regex) ==
    IF filename_regex.some
    THEN IF Filename(location).some
         THEN IsMatch(filename_regex.val, Filename(location).val)
         ELSE FALSE
    ELSE FALSE

\* filename_in_scan that matches the pattern against the whole location
filename_in_scan_whole_path(location, filename_regex) ==
    IF filename_regex.some
    THEN IsMatch(filename_regex.val, PathToString(location))
    ELSE TRUE

\* filename_in_scan
filename_in_scan(location, filename_regex) ==
    IF filename_regex.some
    THEN IF Filename(location).some
         THEN IsMatch(filename_regex.val, Filename(location).val)
         ELSE FALSE
    ELSE TRUE

Execution(msg) == [variant |-> "Execution", msg |-> msg]

Pending == [kind |-> "pending"]
Ended == [kind |-> "end"]
Item(r) == [kind |-> "item", item |-> r]

\* a generator that continues the listing where the scans before it stand
NewGenSharedListing ==
    [pc |-> "start", count |-> 0,
     cursor |-> IF \E s \in ScanIds : streams[s].some
                THEN CHOOSE c \in {streams[s].val.gen.cursor : s \in {t \in ScanIds : streams[t].some}} :
                        \A s \in {t \in ScanIds : streams[t].some} : streams[s].val.gen.cursor <= c
                ELSE 0]

\* the generator's local state when its stream is created
NewGen == [pc |-> "start", cursor |-> 0, count |-> 0]

\* the count the generator holds after it resumes behind `yield Ok(batch)`
CountAfterYield(g) == g.count + 1

\* the LIMIT test with `count > limit`
LimitReachedLate(limit, count) == limit.some /\ count > limit.val

\* the `Early exit on LIMIT clause` test
LimitReached(limit, count) == limit.some /\ count >= limit.val

\* Ok(object_meta) arm: what the generator yields for a descriptor in the scan
YieldFor(object_meta) ==
    LET b == to_record_batch(<<object_meta>>)
    IN  IF b.ok THEN Ok(b.val) ELSE Err(Execution(b.err))

RECURSIVE Loop(_, _, _)
\* `while let Some(item) = object_stream.next().await`, from the top of the loop
\* until the generator yields, awaits a backend that is not ready, or finishes;
\* ready = how many polls of the backend are answered at once
Loop(g, a, ready) ==
    LET listing == List(a.prefix)
    IN  IF ready = 0
        THEN [g |-> [g EXCEPT !.pc = "await"], out |-> Pending]
        ELSE IF g.cursor >= Len(listing)
        THEN [g |-> [g EXCEPT !.pc = "done"], out |-> Ended]
        ELSE LET item == listing[g.cursor + 1]
                 g1 == [g EXCEPT !.cursor = g.cursor + 1]
             IN  IF item.ok
                 THEN IF ~filename_in_scan(item.val.location, a.filename_regex)
                      THEN Loop(g1, a, ready - 1)
                      ELSE LET y == YieldFor(item.val)
                           IN  [g |-> [g1 EXCEPT !.pc = IF y.ok THEN "yielded_ok" ELSE "yielded_err"],
                                out |-> Item(y)]
                 ELSE [g |-> [g1 EXCEPT !.pc = "yielded_err"],
                       out |-> Item(Err(Execution(item.err)))]

\* the rest of the loop body behind a yield: the LIMIT test, then the next round
AfterYield(g, a, ready) ==
    IF LimitReached(a.limit, g.count)
    THEN [g |-> [g EXCEPT !.pc = "done"], out |-> Ended]
    ELSE Loop(g, a, ready)

\* a poll that, having an item to yield, polls the backend once more in advance
ResumePrefetch(g, a, ready) ==
    LET r == CASE g.pc = "done" -> [g |-> g, out |-> Ended]
               [] g.pc = "yielded_ok" -> AfterYield([g EXCEPT !.count = CountAfterYield(g)], a, ready)
               [] g.pc = "yielded_err" -> AfterYield(g, a, ready)
               [] OTHER -> Loop(g, a, ready)
    IN  IF r.out.kind = "item" /\ r.g.cursor < Len(List(a.prefix))
        THEN [r EXCEPT !.g.cursor = r.g.cursor + 1]
        ELSE r

\* one poll of the stream built by to_sendable_stream
Resume(g, a, ready) ==
    CASE g.pc = "done" -> [g |-> g, out |-> Ended]
      [] g.pc = "yielded_ok" -> AfterYield([g EXCEPT !.count = CountAfterYield(g)], a, ready)
      [] g.pc = "yielded_err" -> AfterYield(g, a, ready)
      [] OTHER -> Loop(g, a, ready)

\* arguments that take the prefix from the first predicate of the scan
to_sendable_stream_args_prefix_from_filters(p) ==
    [store |-> p.store, limit |-> p.limit,
     prefix |-> IF p.filters # <<>> THEN Some(p.filters[1].arg) ELSE p.prefix,
     filename_regex |-> p.filename_regex]

\* the arguments ObjectStoreMetadataExec::execute gives to to_sendable_stream
to_sendable_stream_args(p) ==
    [store |-> p.store, limit |-> p.limit, prefix |-> p.prefix,
     filename_regex |-> p.filename_regex]

\* ObjectStoreMetadataExec::execute
execute(p) ==
    [schema |-> p.projected_schema, args |-> to_sendable_stream_args(p), gen |-> NewGen,
     outputs |-> <<>>, ended |-> FALSE, dropped |-> FALSE]

----------------------------------------------------------------------------
(* Inputs *)

Prefixes == {None, Some(<<"d">>)}

PatternSources == { <<".">>, <<"d">>, <<"^", "b">>, <<"(">> }
Patterns == {None} \cup {Some(src) : src \in PatternSources}

\* a predicate of the engine on the location column
Exprs == { [column |-> "location", op |-> "starts_with", arg |-> <<"d">>] }

FilterLists(n) == UNION {[1..k -> Exprs] : k \in 0..n}

Limits(n) == {None} \cup {Some(k) : k \in 0..n}

Projections == {None}

\* the predicate lists of the scans: none, or one predicate
FilterInputs == FilterLists(1)

\* the table configurations and limits of two concurrent scans
ConcTables == { <<None, None>>, <<None, Some(<<"^", "b">>)>> }
ConcLimits == {None, Some(1)}

MetaLists(n) == UNION {[1..k -> Objects] : k \in 0..n}

StoreHandle == "store"

NoCall == [fn |-> "none"]

----------------------------------------------------------------------------
(* Operations *)

\* ObjectStoreMetadataTable::try_new(store, prefix, filename_regex)
TryNew(prefix, filename_regex) ==
    /\ ~table.some
    /\ table' = Some([prefix |-> prefix, filename_regex |-> filename_regex,
                      result |-> try_new(StoreHandle, prefix, filename_regex)])
    /\ UNCHANGED <<store, pushdown, plans, streams, call, chat>>

Built == table.some /\ table.val.result.ok
Table == table.val.result.val

\* the engine asks which of the predicates of a coming scan the table evaluates
SupportsFiltersPushdown(s, filters) ==
    /\ Built
    /\ ~pushdown[s].some
    /\ ~plans[s].some
    /\ pushdown' = [pushdown EXCEPT ![s] =
                      Some([filters |-> filters,
                            answer |-> supports_filters_pushdown(Table, filters)])]
    /\ UNCHANGED <<store, table, plans, streams, call, chat>>

\* TableProvider::scan(projection, filters, limit)
Scan(s, projection, filters, limit) ==
    /\ Built
    /\ ~plans[s].some
    /\ pushdown[s].some => pushdown[s].val.filters = filters
    /\ plans' = [plans EXCEPT ![s] = Some(scan(Table, projection, filters, limit))]
    /\ UNCHANGED <<store, table, pushdown, streams, call, chat>>

\* ExecutionPlan::execute(0, context)
Execute(s) ==
    /\ plans[s].some
    /\ ~streams[s].some
    /\ streams' = [streams EXCEPT ![s] = Some(execute(plans[s].val))]
    /\ UNCHANGED <<store, table, pushdown, plans, call, chat>>

\* the consumer polls the row stream once
PollNext(s, ready) ==
    /\ streams[s].some
    /\ ~streams[s].val.dropped
    /\ \E st \in {streams[s].val} : \E r \in {Resume(st.gen, st.args, ready)} :
           streams' = [streams EXCEPT ![s] =
                         Some([st EXCEPT !.gen = r.g,
                                         !.outputs = IF r.out.kind = "item"
                                                     THEN Append(st.outputs, r.out.item)
                                                     ELSE st.outputs,
                                         !.ended = st.ended \/ r.out.kind = "end"])]
    /\ UNCHANGED <<store, table, pushdown, plans, call, chat>>

\* the consumer drops the row stream (cancellation)
Drop(s) ==
    /\ streams[s].some
    /\ ~streams[s].val.dropped
    /\ streams' = [streams EXCEPT ![s] = Some([streams[s].val EXCEPT !.dropped = TRUE])]
    /\ UNCHANGED <<store, table, pushdown, plans, call, chat>>

\* a direct call of ObjectStoreMetadataTable::to_record_batch
CallToRecordBatch(meta_list) ==
    /\ Built
    /\ call' = [fn |-> "to_record_batch", args |-> meta_list,
                result |-> to_record_batch(meta_list)]
    /\ UNCHANGED <<store, table, pushdown, plans, streams, chat>>

\* the engine asks the provider for its schema
CallSchema ==
    /\ Built
    /\ call' = [fn |-> "TableProvider::schema", result |-> schema]
    /\ UNCHANGED <<store, table, pushdown, plans, streams, chat>>

\* the engine asks the provider (a dyn TableProvider) for its constraints
CallTableProviderConstraints ==
    /\ Built
    /\ call' = [fn |-> "TableProvider::constraints", result |-> TableProvider_constraints(Table)]
    /\ UNCHANGED <<store, table, pushdown, plans, streams, chat>>

\* a caller that holds the concrete table calls its inherent constraints()
CallConstraints ==
    /\ Built
    /\ call' = [fn |-> "ObjectStoreMetadataTable::constraints", result |-> constraints(Table)]
    /\ UNCHANGED <<store, table, pushdown, plans, streams, chat>>

----------------------------------------------------------------------------
(* One scan of a table built by try_new *)

Init ==
    /\ store \in Listings(MaxLen)
    /\ table = None
    /\ pushdown = [s \in ScanIds |-> None]
    /\ plans = [s \in ScanIds |-> None]
    /\ streams = [s \in ScanIds |-> None]
    /\ call = NoCall
    /\ chat = None

Next ==
    \/ \E prefix \in Prefixes, pattern \in Patterns : TryNew(prefix, pattern)
    \/ \E projection \in Projections, limit \in Limits(MaxLimit) :
          Scan(1, projection, <<>>, limit)
    \/ Execute(1)
    \/ \E ready \in 0..MaxReady : PollNext(1, ready)
    \/ Drop(1)

Spec == Init /\ [][Next]_vars

----------------------------------------------------------------------------
(* Two scans of one table, planned by the engine and polled in any order *)

InitConc ==
    /\ store \in Listings(MaxLenConc)
    /\ \E c \in ConcTables :
          table = Some([prefix |-> c[1], filename_regex |-> c[2],
                        result |-> try_new(StoreHandle, c[1], c[2])])
    /\ pushdown = [s \in ScanIds |-> None]
    /\ plans = [s \in ScanIds |-> None]
    /\ streams = [s \in ScanIds |-> None]
    /\ call = NoCall
    /\ chat = None

NextConc ==
    \/ \E s \in ScanIds, filters \in FilterInputs : SupportsFiltersPushdown(s, filters)
    \/ \E s \in ScanIds, projection \in Projections, filters \in FilterInputs,
          limit \in ConcLimits : Scan(s, projection, filters, limit)
    \/ \E s \in ScanIds : Execute(s)
    \/ \E s \in ScanIds, ready \in 0..1 : PollNext(s, ready)

SpecConc == InitConc /\ [][NextConc]_vars

----------------------------------------------------------------------------
(* Vocabulary of the properties *)

Streaming(s) == streams[s].some
Stream(s) == streams[s].val
Listing(s) == List(Stream(s).args.prefix)
Polled(s) == SubSeq(Listing(s), 1, Stream(s).gen.cursor)

ErrorFree(listing) == \A i \in 1..Len(listing) : listing[i].ok
NoPattern(s) == ~Stream(s).args.filename_regex.some
NoLimit(s) == ~Stream(s).args.limit.some

\* the row a descriptor stands for, column by column
DescriptorRow(meta) ==
    << Some(PathToString(meta.location)), Some(timestamp_millis(meta.last_modified)),
       Some(meta.size), meta.e_tag, meta.version >>

SingleRow(batch) == \A c \in 1..Len(batch.columns) : Len(batch.columns[c].values) = 1
RowOf(batch) == [c \in 1..Len(batch.columns) |-> batch.columns[c].values[1]]

\* a descriptor passes the filename filter of a pattern
Matches(meta, pattern) ==
    pattern.some =>
        /\ meta.location # <<>>
        /\ IsMatch(pattern.val, meta.location[Len(meta.location)])

IsBatch(out) == out.ok
IsError(out) == ~out.ok
Batches(outputs) == SelectSeq(outputs, IsBatch)
HasError(outputs) == \E i \in 1..Len(outputs) : IsError(outputs[i])

RECURSIVE MatchingOf(_, _)
\* the descriptors of a listing that pass the filter, in listing order
MatchingOf(listing, pattern) ==
    IF listing = <<>> THEN <<>>
    ELSE (IF Head(listing).ok /\ Matches(Head(listing).val, pattern)
          THEN <<Head(listing).val>> ELSE <<>>) \o MatchingOf(Tail(listing), pattern)

RowsOf(metas) == [i \in 1..Len(metas) |-> DescriptorRow(metas[i])]
EmittedRows(s) == [i \in 1..Len(Batches(Stream(s).outputs)) |-> RowOf(Batches(Stream(s).outputs)[i].val)]

IsPrefix(a, b) == Len(a) <= Len(b) /\ a = SubSeq(b, 1, Len(a))

----------------------------------------------------------------------------
(* A consumer that keeps pulling, and a backend that answers in the end *)

\* the listing has no error, the table no filename pattern and the scan no limit

InitLive ==
    /\ store \in {l \in Listings(MaxLen) : ErrorFree(l)}
    /\ \E prefix \in Prefixes :
          table = Some([prefix |-> prefix, filename_regex |-> None,
                        result |-> try_new(StoreHandle, prefix, None)])
    /\ pushdown = [s \in ScanIds |-> None]
    /\ plans = [s \in ScanIds |-> None]
    /\ streams = [s \in ScanIds |-> None]
    /\ call = NoCall
    /\ chat = None

NextLive ==
    \/ \E projection \in Projections : Scan(1, projection, <<>>, None)
    \/ Execute(1)
    \/ \E ready \in 0..MaxReady : PollNext(1, ready)

SpecLive ==
    InitLive /\ [][NextLive]_vars /\ WF_vars(\E ready \in 1..MaxReady : PollNext(1, ready))

----------------------------------------------------------------------------

C1_Case(s) ==
    /\ Streaming(s)
    /\ NoPattern(s) /\ NoLimit(s)
    /\ ErrorFree(Listing(s))

C1_Rows(s) ==
    /\ \A i \in 1..Len(Stream(s).outputs) :
          IsBatch(Stream(s).outputs[i]) /\ SingleRow(Stream(s).outputs[i].val)
    /\ Len(Stream(s).outputs) = Stream(s).gen.cursor
    /\ EmittedRows(s) = RowsOf([i \in 1..Stream(s).gen.cursor |-> Listing(s)[i].val])
    /\ Stream(s).ended => Len(Stream(s).outputs) = Len(Listing(s))

\* C1: with no filename pattern, no limit and an error-free finite listing, the
\* stream emits one single-row batch per descriptor, in backend order (the rows
\* emitted so far are always the rows of the descriptors polled so far, none
\* dropped, doubled or reordered), and a consumer that keeps pulling reaches the
\* end of the stream, by which time every descriptor has been emitted.
C1_OneRowPerDescriptor ==
    /\ [](\A s \in ScanIds : C1_Case(s) => C1_Rows(s))
    /\ \A s \in ScanIds :
          (C1_Case(s)) ~> (Streaming(s) /\ Stream(s).ended)

C1_Witness ==
    /\ C1_Case(1)
    /\ Stream(1).ended
    /\ Len(Stream(1).outputs) = 3

\* C2: once the stream has delivered a listing error it is over: no further batch
\* or error is emitted and the backend is not polled again, however long the
\* consumer keeps pulling.
C2_ErrorTerminates ==
    [][\A s \in ScanIds :
          (Streaming(s) /\ HasError(Stream(s).outputs)) =>
              /\ streams'[s].val.outputs = Stream(s).outputs
              /\ streams'[s].val.gen.cursor = Stream(s).gen.cursor]_vars

----------------------------------------------------------------------------

Limit(s) == Stream(s).args.limit
Pattern(s) == Stream(s).args.filename_regex
NumDescriptors(listing) == Len(MatchingOf(listing, None))
NumMatching(listing, pattern) == Len(MatchingOf(listing, pattern))

\* position in the listing of the n-th descriptor that passes the filter
NthMatchIndex(listing, pattern, n) ==
    CHOOSE i \in 1..Len(listing) :
        /\ NumMatching(SubSeq(listing, 1, i), pattern) = n
        /\ NumMatching(SubSeq(listing, 1, i - 1), pattern) = n - 1

EndsAfterNRows(s, n, last) ==
    /\ Len(Batches(Stream(s).outputs)) <= n
    /\ Stream(s).gen.cursor <= last
    /\ Stream(s).ended =>
          /\ Len(Batches(Stream(s).outputs)) = n
          /\ IsBatch(Stream(s).outputs[Len(Stream(s).outputs)])
          /\ Stream(s).gen.cursor = last

\* C3 as claimed: for every positive limit N smaller than the number of descriptors
\* in the listing, the scan emits exactly N rows, then ends normally, and never
\* polls the backend past the descriptor that produced the N-th row.
C3_LimitOfListingSize ==
    \A s \in ScanIds :
        (/\ Streaming(s)
         /\ Limit(s).some
         /\ Limit(s).val > 0
         /\ Limit(s).val < NumDescriptors(Listing(s))
         /\ Stream(s).ended)
        => Len(Batches(Stream(s).outputs)) = Limit(s).val

C3_Case(s) ==
    /\ Streaming(s)
    /\ Limit(s).some
    /\ Limit(s).val > 0
    /\ Limit(s).val < NumMatching(Listing(s), Pattern(s))

\* C3 as amended: for every positive limit N smaller than the number of descriptors
\* of the listing that pass the filename filter (all of them with no pattern), the
\* scan never emits more than N rows nor polls past the descriptor of the N-th row,
\* and when it ends it has emitted exactly N rows, the last item being a row.
C3_LimitOfMatching ==
    \A s \in ScanIds :
        C3_Case(s) =>
            EndsAfterNRows(s, Limit(s).val,
                           NthMatchIndex(Listing(s), Pattern(s), Limit(s).val))

C3_Witness ==
    /\ C3_Case(1)
    /\ Limit(1).val = 1
    /\ Pattern(1).some
    /\ Len(Listing(1)) > 2
    /\ Stream(1).ended

\* C4: with a filename pattern, no limit and an error-free listing, the rows emitted
\* are exactly the rows of the polled descriptors whose location has a final segment
\* that matches the pattern, in order; a location without final segment is never
\* emitted.
C4_EmittedIffFilenameMatches ==
    \A s \in ScanIds :
        (Streaming(s) /\ Pattern(s).some /\ NoLimit(s) /\ ErrorFree(Listing(s))) =>
            /\ \A i \in 1..Len(Stream(s).outputs) : IsBatch(Stream(s).outputs[i])
            /\ EmittedRows(s) = RowsOf(MatchingOf(Polled(s), Pattern(s)))
            /\ \A i \in 1..Len(EmittedRows(s)) : EmittedRows(s)[i][1] # Some(<<>>)

C4_Witness ==
    /\ Streaming(1) /\ Pattern(1).some /\ NoLimit(1) /\ ErrorFree(Listing(1))
    /\ Stream(1).ended
    /\ Len(Listing(1)) = 3
    /\ Len(Stream(1).outputs) = 1

\* items of a listing that reach the consumer: errors and descriptors in the scan
Emittable(listing, pattern) ==
    {i \in 1..Len(listing) : ~listing[i].ok \/ Matches(listing[i].val, pattern)}

C5_NothingHeld(s) ==
    /\ Stream(s).gen.pc = "start" => Stream(s).gen.cursor = 0
    /\ Len(Stream(s).outputs) = Cardinality(Emittable(Polled(s), Pattern(s)))
    /\ Stream(s).gen.cursor > 0 =>
          \/ Stream(s).gen.cursor \in Emittable(Polled(s), Pattern(s))
          \/ Stream(s).gen.pc \in {"await", "done"}

C5_PolledOnlyInPull(s) ==
    (Streaming(s) /\ streams'[s].val.gen.cursor # Stream(s).gen.cursor) =>
        /\ ~Stream(s).dropped
        /\ \E ready \in 1..MaxReady : PollNext(s, ready)

\* C5: the backend is polled only inside a pull of the consumer: no stream has
\* polled before its first pull, every item polled so far has been handed to the
\* consumer or discarded by the filter (none is held in advance; the last item
\* polled is the one that answered the pull unless the pull found the backend not
\* ready or at its end), the cursor moves only in a step that is a pull, and never
\* after the consumer dropped the stream.
C5_NoPrefetch ==
    /\ [](\A s \in ScanIds : Streaming(s) => C5_NothingHeld(s))
    /\ [][\A s \in ScanIds : C5_PolledOnlyInPull(s)]_vars

C5_Witness ==
    /\ Streaming(1)
    /\ Stream(1).dropped
    /\ Stream(1).gen.cursor = 2
    /\ Len(Listing(1)) = 3
    /\ Len(Stream(1).outputs) = 1

ValidPatternSources == { <<".">>, <<"d">>, <<"^", "b">> }

\* C9: try_new fails exactly when a pattern is given that is no regular expression;
\* after a successful construction every error a stream delivers is a listing error
\* of the backend, one per error the backend yielded, never one of the pattern.
C9_PatternFailsOnlyAtConstruction ==
    table.some =>
        /\ ~table.val.result.ok <=>
              (table.val.filename_regex.some
               /\ table.val.filename_regex.val \notin ValidPatternSources)
        /\ \A s \in ScanIds : Streaming(s) =>
              /\ Built
              /\ \A i \in 1..Len(Stream(s).outputs) :
                    IsError(Stream(s).outputs[i]) =>
                        Stream(s).outputs[i].err = Execution(ListingError)
              /\ Len(SelectSeq(Stream(s).outputs, IsError))
                     = Cardinality({i \in 1..Len(Polled(s)) : ~Polled(s)[i].ok})

C9_Witness ==
    /\ Built
    /\ table.val.filename_regex.some
    /\ Streaming(1)
    /\ Stream(1).ended
    /\ HasError(Stream(1).outputs)
    /\ Len(Stream(1).outputs) = 2

----------------------------------------------------------------------------
(* Direct calls of the provider's functions *)

InitApi ==
    /\ store = <<>>
    /\ \E prefix \in Prefixes, pattern \in {None} \cup {Some(src) : src \in ValidPatternSources} :
          table = Some([prefix |-> prefix, filename_regex |-> pattern,
                        result |-> try_new(StoreHandle, prefix, pattern)])
    /\ pushdown = [s \in ScanIds |-> None]
    /\ plans = [s \in ScanIds |-> None]
    /\ streams = [s \in ScanIds |-> None]
    /\ call = NoCall
    /\ chat = None

NextApi ==
    \/ \E meta_list \in MetaLists(MaxBatch) : CallToRecordBatch(meta_list)
    \/ CallSchema
    \/ CallTableProviderConstraints
    \/ CallConstraints

SpecApi == InitApi /\ [][NextApi]_vars

----------------------------------------------------------------------------

Unsupported(answer, filters) ==
    /\ answer.ok
    /\ Len(answer.val) = Len(filters)
    /\ \A i \in 1..Len(filters) : answer.val[i] = "Unsupported"

SameButFilters(s, t) ==
    /\ plans[s].val.limit = plans[t].val.limit
    /\ plans[s].val.projected_schema = plans[t].val.projected_schema

\* C6: supports_filters_pushdown answers Unsupported once per predicate, and two
\* scans of the same listing that differ only in their predicates emit the same
\* items: at any time one has emitted a prefix of what the other has, and when
\* both have ended they have emitted the same sequence.
C6_FiltersIgnored ==
    /\ \A s \in ScanIds :
          pushdown[s].some => Unsupported(pushdown[s].val.answer, pushdown[s].val.filters)
    /\ \A s, t \in ScanIds :
          (Streaming(s) /\ Streaming(t) /\ SameButFilters(s, t)) =>
              /\ IsPrefix(Stream(s).outputs, Stream(t).outputs)
                    \/ IsPrefix(Stream(t).outputs, Stream(s).outputs)
              /\ (Stream(s).ended /\ Stream(t).ended) =>
                    Stream(s).outputs = Stream(t).outputs

C6_Witness ==
    /\ Streaming(1) /\ Streaming(2) /\ SameButFilters(1, 2)
    /\ pushdown[1].some /\ pushdown[2].some
    /\ plans[1].val.filters = <<>>
    /\ Len(plans[2].val.filters) = 1
    /\ Stream(1).ended /\ Stream(2).ended
    /\ Len(Stream(1).outputs) = 2

\* what reaches the consumer, item by item: a row or an error message
View(outputs) ==
    [i \in 1..Len(outputs) |->
        IF outputs[i].ok THEN <<"row", RowOf(outputs[i].val)>>
        ELSE <<"error", outputs[i].err.msg>>]

RECURSIVE EmittableView(_, _)
\* the items of a listing that reach the consumer of a scan without limit
EmittableView(listing, pattern) ==
    IF listing = <<>> THEN <<>>
    ELSE LET it == Head(listing)
             here == IF ~it.ok THEN << <<"error", it.err>> >>
                     ELSE IF Matches(it.val, pattern) THEN << <<"row", DescriptorRow(it.val)>> >>
                     ELSE <<>>
         IN  here \o EmittableView(Tail(listing), pattern)

RowCount(view, k) == Cardinality({i \in 1..k : view[i][1] = "row"})

\* what a scan emits when it runs alone: the emittable items up to the first one
\* after which the rows emitted have reached the limit
AloneView(listing, pattern, limit) ==
    LET all == EmittableView(listing, pattern)
        stops == {k \in 1..Len(all) : limit.some /\ RowCount(all, k) >= limit.val}
    IN  IF stops = {} THEN all
        ELSE SubSeq(all, 1, CHOOSE k \in stops : \A j \in stops : k <= j)

C7_ConfigThreaded(s) ==
    /\ plans[s].some =>
          /\ plans[s].val.store = Table.store
          /\ plans[s].val.prefix = Table.prefix
          /\ plans[s].val.filename_regex = Table.filename_regex
    /\ Streaming(s) =>
          /\ Stream(s).args.store = Table.store
          /\ Stream(s).args.prefix = Table.prefix
          /\ Stream(s).args.filename_regex = Table.filename_regex
          /\ Stream(s).args.limit = plans[s].val.limit

C7_AsIfAlone(s) ==
    Streaming(s) =>
        LET alone == AloneView(List(Table.prefix), Table.filename_regex, plans[s].val.limit)
        IN  /\ IsPrefix(View(Stream(s).outputs), alone)
            /\ Stream(s).ended => View(Stream(s).outputs) = alone

\* C7: every plan and stream carries the table's store, prefix and pattern as they
\* are, no step changes the table, and however two scans interleave each emits a
\* prefix of the sequence it emits alone on the listing with its own limit, and
\* the whole of it once it has ended.
C7_ScansIndependent ==
    /\ [](\A s \in ScanIds : C7_ConfigThreaded(s) /\ C7_AsIfAlone(s))
    /\ [][table' = table]_vars

C7_Witness ==
    /\ Streaming(1) /\ Streaming(2)
    /\ plans[1].val.limit = Some(1) /\ plans[2].val.limit = None
    /\ Stream(1).ended /\ Stream(2).ended
    /\ Len(Stream(1).outputs) = 1
    /\ Len(Stream(2).outputs) = 2

\* C8: every batch to_record_batch builds has the five columns location,
\* last_modified, size, e_tag, version in this order, with the fields of the
\* provider's schema(), each column of its field's type, without a null where
\* the field is not nullable, and one value per descriptor.
C8_BatchMatchesSchema ==
    call.fn = "to_record_batch" =>
        /\ call.result.ok
        /\ [i \in 1..Len(call.result.val.schema) |-> call.result.val.schema[i].name]
              = <<"location", "last_modified", "size", "e_tag", "version">>
        /\ call.result.val.schema = schema
        /\ Len(call.result.val.columns) = 5
        /\ \A i \in 1..5 :
              /\ call.result.val.columns[i].type = schema[i].type
              /\ Len(call.result.val.columns[i].values) = Len(call.args)
              /\ ~schema[i].nullable =>
                    \A r \in 1..Len(call.args) : call.result.val.columns[i].values[r].some

C8_Witness ==
    /\ call.fn = "to_record_batch"
    /\ Len(call.args) = 3
    /\ call.result.ok
    /\ \E r \in 1..3 : ~call.result.val.columns[4].values[r].some

\* C10: the constraints the engine obtains from the table provider are exactly one
\* primary key, on column 0 (location).
C10_PrimaryKeyDeclared ==
    call.fn = "TableProvider::constraints" =>
        call.result = Some(<< PrimaryKey(<<0>>) >>)

----------------------------------------------------------------------------
(***************************************************************************)
(* Model of the vector distance function of                                *)
(* crates/runtime/src/embeddings/array_distance.rs: type resolution        *)
(* (return_type) and evaluation (invoke) of ArrayDistance.                 *)
(***************************************************************************)

MaxVecLen == 2       \* longest vector (declared length of a fixed-length list)
MaxRows == 2         \* most rows of an operand column

(* Data types *)

Float32 == [kind |-> "Float32"]
Float64 == [kind |-> "Float64"]
Utf8 == [kind |-> "Utf8"]
\* DataType::FixedSizeList(field, size), DataType::List(field): the field's type
FixedSizeList(elem, size) == [kind |-> "FixedSizeList", elem |-> elem, size |-> size]
ListOf(elem) == [kind |-> "List", elem |-> elem]

\* DataFusionError::Plan, DataFusionError::Internal; a message is its words
Plan(msg) == [variant |-> "Plan", msg |-> msg]
Internal(msg) == [variant |-> "Internal", msg |-> msg]

\* return_type that forgets to compare the declared lengths
return_type_any_size(args) ==
    IF Len(args) # 2
    THEN Err(Plan(<<"array_distance", "takes", "exactly", "two", "arguments">>))
    ELSE IF args[1].kind = "FixedSizeList" /\ args[2].kind \in {"FixedSizeList", "List"}
         THEN IF args[2].kind = "FixedSizeList" /\ args[1].elem # Float32
              THEN Err(Plan(<<"array_distance", "requires", "first", "arguments", "to", "be",
                              "of", "type", "FixedSizeList<Float32>">>))
              ELSE IF args[2].kind = "FixedSizeList" /\ args[2].elem # Float32
              THEN Err(Plan(<<"array_distance", "requires", "second", "arguments", "to", "be",
                              "of", "type", "FixedSizeList<Float32>">>))
              ELSE Ok(Float32)
         ELSE Err(Plan(<<"array_distance", "requires", "the",
                         IF args[1].kind = "FixedSizeList" THEN "second" ELSE "first",
                         "argument", "to", "be", "of", "type", "FixedSizeList">>))

\* return_type whose fall-through arm blames the second argument
return_type_blames_second(args) ==
    IF Len(args) # 2
    THEN Err(Plan(<<"array_distance", "takes", "exactly", "two", "arguments">>))
    ELSE IF args[1].kind = "FixedSizeList" /\ args[2].kind = "FixedSizeList"
         THEN IF args[1].elem # Float32
              THEN Err(Plan(<<"array_distance", "requires", "first", "arguments", "to", "be",
                              "of", "type", "FixedSizeList<Float32>">>))
              ELSE IF args[2].elem # Float32
              THEN Err(Plan(<<"array_distance", "requires", "second", "arguments", "to", "be",
                              "of", "type", "FixedSizeList<Float32>">>))
              ELSE IF args[1].size # args[2].size
              THEN Err(Plan(<<"array_distance", "requires", "both", "arguments", "to", "be",
                              "of", "the", "same", "size">>))
              ELSE Ok(Float32)
         ELSE IF args[1].kind = "FixedSizeList" /\ args[2].kind = "List"
         THEN Ok(Float32)
         ELSE IF args[2].kind = "FixedSizeList"
         THEN Err(Plan(<<"array_distance", "requires", "the", "first", "argument", "to", "be",
                         "of", "type", "FixedSizeList">>))
         ELSE Err(Plan(<<"array_distance", "requires", "the", "second", "argument", "to", "be",
                         "of", "type", "FixedSizeList">>))

\* ArrayDistance::return_type
return_type(args) ==
    IF Len(args) # 2
    THEN Err(Plan(<<"array_distance", "takes", "exactly", "two", "arguments">>))
    ELSE IF args[1].kind = "FixedSizeList" /\ args[2].kind = "FixedSizeList"
         THEN IF args[1].elem # Float32
              THEN Err(Plan(<<"array_distance", "requires", "first", "arguments", "to", "be",
                              "of", "type", "FixedSizeList<Float32>">>))
              ELSE IF args[2].elem # Float32
              THEN Err(Plan(<<"array_distance", "requires", "second", "arguments", "to", "be",
                              "of", "type", "FixedSizeList<Float32>">>))
              ELSE IF args[1].size # args[2].size
              THEN Err(Plan(<<"array_distance", "requires", "both", "arguments", "to", "be",
                              "of", "the", "same", "size">>))
              ELSE Ok(Float32)
         \* the arm for an SQL constant array such as array_distance(x, [1.0, 2.0, 3.0])
         ELSE IF args[1].kind = "FixedSizeList" /\ args[2].kind = "List"
         THEN Ok(Float32)
         ELSE IF args[1].kind = "FixedSizeList"
         THEN Err(Plan(<<"array_distance", "requires", "the", "second", "argument", "to", "be",
                         "of", "type", "FixedSizeList">>))
         ELSE IF args[2].kind = "FixedSizeList"
         THEN Err(Plan(<<"array_distance", "requires", "the", "first", "argument", "to", "be",
                         "of", "type", "FixedSizeList">>))
         ELSE Err(Plan(<<"array_distance", "requires", "the", "first", "argument", "to", "be",
                         "of", "type", "FixedSizeList">>))

(* Floating-point values.  A finite value of the model is a small integer,     *)
(* which both float widths hold exactly and on which the 32-bit subtraction,   *)
(* square and sum are exact.  Huge and Tiny are finite 64-bit values outside   *)
(* the range of the 32-bit format.  Root(n) is the 32-bit float nearest to     *)
(* the square root of n, for n not a perfect square.                           *)

F(n) == [k |-> "fin", v |-> n]
NaN == [k |-> "nan"]
Inf(neg) == [k |-> "inf", neg |-> neg]
Huge == [k |-> "huge"]
Tiny == [k |-> "tiny"]
Root(n) == [k |-> "root", of |-> n]

\* `x as f32` of an f64: rounds to the nearest f32, to infinity above f32::MAX
\* and to zero below the smallest subnormal
as_f32(x) ==
    IF x.k = "huge" THEN Inf(FALSE)
    ELSE IF x.k = "tiny" THEN F(0)
    ELSE x

\* a subtraction that adds
Sub32_as_sum(x, y) ==
    IF x.k = "nan" \/ y.k = "nan" THEN NaN
    ELSE IF x.k = "inf" /\ y.k = "inf" THEN (IF x.neg = y.neg THEN x ELSE NaN)
    ELSE IF x.k = "inf" THEN x
    ELSE IF y.k = "inf" THEN y
    ELSE F(x.v + y.v)

\* f32 subtraction
Sub32(x, y) ==
    IF x.k = "nan" \/ y.k = "nan" THEN NaN
    ELSE IF x.k = "inf" /\ y.k = "inf" THEN (IF x.neg = y.neg THEN NaN ELSE x)
    ELSE IF x.k = "inf" THEN x
    ELSE IF y.k = "inf" THEN Inf(~y.neg)
    ELSE F(x.v - y.v)

\* f32::powi(2)
Powi2(x) ==
    IF x.k = "nan" THEN NaN
    ELSE IF x.k = "inf" THEN Inf(FALSE)
    ELSE F(x.v * x.v)

\* f32 addition of two values that are not negative
Add32(x, y) ==
    IF x.k = "nan" \/ y.k = "nan" THEN NaN
    ELSE IF x.k = "inf" \/ y.k = "inf" THEN Inf(FALSE)
    ELSE F(x.v + y.v)

\* f32::sqrt of a value that is not negative: correctly rounded, so exact on a
\* perfect square
Sqrt32(x) ==
    IF x.k = "nan" THEN NaN
    ELSE IF x.k = "inf" THEN x
    ELSE IF \E r \in 0..x.v : r * r = x.v
         THEN F(CHOOSE r \in 0..x.v : r * r = x.v)
         ELSE Root(x.v)

(* Arrays.  A slot of a primitive array holds a validity bit and the value of *)
(* its buffer; a list array holds one optional child array per row.           *)

Slot(valid, value) == [valid |-> valid, value |-> value]
PrimitiveArray(type, slots) == [data_type |-> type, slots |-> slots]
\* FixedSizeListArray and ListArray
ListArray(type, rows) == [data_type |-> type, rows |-> rows]

\* Float32Array::from(Vec<f32>), Float32Array::from_iter_values: no null slot
Float32ArrayFrom(values) ==
    PrimitiveArray(Float32, [i \in 1..Len(values) |-> Slot(TRUE, values[i])])

\* PrimitiveArray::value(i): the buffer's value, whatever the validity bit
value(array, i) == array.slots[i].value

\* Iterator<Item = Result<T, E>>::collect::<Result<Vec<T>, E>>: the first error,
\* else all the values
CollectResult(results) ==
    IF \E i \in 1..Len(results) : ~results[i].ok
    THEN results[CHOOSE i \in 1..Len(results) :
                    ~results[i].ok /\ \A j \in 1..(i - 1) : results[j].ok]
    ELSE Ok([i \in 1..Len(results) |-> results[i].val])

\* ArrayDistance::convert_f64_to_f32
convert_f64_to_f32(array) ==
    Float32ArrayFrom([i \in 1..Len(array.slots) |-> as_f32(array.slots[i].value)])

\* one row of a list array downcast to the primitive array of the wanted type
DowncastRow(v, type) ==
    IF ~v.some
    THEN Err(Internal(<<"no", "null", "entries", "allowed">>))
    ELSE IF v.val.data_type = type
         THEN Ok(v.val)
         ELSE Err(Internal(<<"downcast", "failed">>))

\* ArrayDistance::to_float32_array
to_float32_array(input) ==
    IF input.data_type.kind # "FixedSizeList"
    THEN Err(Internal(<<"could", "not", "cast", "value", "to", "FixedSizeListArray">>))
    ELSE CollectResult([i \in 1..Len(input.rows) |-> DowncastRow(input.rows[i], Float32)])

\* the DataType::List arm of invoke: each row downcast to Float64Array and narrowed
list_to_float32_arrays(input) ==
    CollectResult([i \in 1..Len(input.rows) |->
        LET r == DowncastRow(input.rows[i], Float64)
        IN  IF r.ok THEN Ok(convert_f64_to_f32(r.val)) ELSE r])

RECURSIVE SumSquares(_, _, _, _)
\* the loop `for i in 0..a.len() { sum += (a.value(i) - b.value(i)).powi(2) }`
SumSquares(a, b, i, sum) ==
    IF i > Len(a.slots)
    THEN sum
    ELSE SumSquares(a, b, i + 1, Add32(sum, Powi2(Sub32(value(a, i), value(b, i)))))

\* a closure that measures rows of different lengths over the length of the first
RowDistance_truncating(a, b) ==
    IF Len(a.slots) > Len(b.slots)
    THEN Err(Internal(<<"arrays", "must", "have", "the", "same", "length",
                        Len(a.slots), "!=", Len(b.slots)>>))
    ELSE Ok(Sqrt32(SumSquares(a, b, 1, F(0))))

\* the closure over a pair of rows
RowDistance(a, b) ==
    IF Len(a.slots) # Len(b.slots)
    THEN Err(Internal(<<"arrays", "must", "have", "the", "same", "length",
                        Len(a.slots), "!=", Len(b.slots)>>))
    ELSE Ok(Sqrt32(SumSquares(a, b, 1, F(0))))

Min(m, n) == IF m <= n THEN m ELSE n

\* a pairing that measures every row of the first operand against the first row
\* of the second
ZipDistances_first_row(v1, v2) ==
    [i \in 1..Min(Len(v1), Len(v2)) |-> RowDistance(v1[i], v2[1])]

\* Iterator::zip of the two decoded operands, mapped by the closure
ZipDistances(v1, v2) ==
    [i \in 1..Min(Len(v1), Len(v2)) |-> RowDistance(v1[i], v2[i])]

\* ArrayDistance::invoke; the arguments are ColumnarValue::Array values, which
\* ColumnarValue::values_to_arrays hands over as they are
invoke(args) ==
    LET v1 == to_float32_array(args[1])
        v2 == IF args[2].data_type.kind = "FixedSizeList"
              THEN to_float32_array(args[2])
              ELSE IF args[2].data_type.kind = "List"
              THEN list_to_float32_arrays(args[2])
              ELSE Err(Internal(<<"second", "argument", "must", "be", "of", "type",
                                  "FixedSizeList", "or", "List">>))
    IN  IF ~v1.ok THEN v1
        ELSE IF ~v2.ok THEN v2
        ELSE LET z == CollectResult(ZipDistances(v1.val, v2.val))
             IN  IF ~z.ok THEN z
                 ELSE Ok(Float32ArrayFrom(z.val))

(* Inputs of the vector distance function *)

ElementTypes == {Float32, Float64}

DataTypes(n) ==
    {Float32, Float64, Utf8}
        \cup {FixedSizeList(e, k) : e \in ElementTypes, k \in 0..n}
        \cup {ListOf(e) : e \in ElementTypes}

\* the argument types of a call: every pair, and some lists of another length
TypeLists(n) ==
    [1..2 -> DataTypes(n)]
        \cup UNION {[1..k -> {Float32, FixedSizeList(Float32, 1)}] : k \in {0, 1, 3}}

\* the vector base, base + 1, ...
Ramp(n, base) == [i \in 1..n |-> Slot(TRUE, F(base + i - 1))]

\* the vectors of length n: two ramps, and the first ramp with its last slot
\* replaced
VectorSlots(n, lasts) ==
    {Ramp(n, 0), Ramp(n, 3)}
        \cup (IF n = 0 THEN {} ELSE {[Ramp(n, 0) EXCEPT ![n] = s] : s \in lasts})

\* a null slot's buffer may hold any value
Lasts32 == {Slot(TRUE, NaN), Slot(TRUE, Inf(FALSE)), Slot(FALSE, F(7))}
Lasts64 == Lasts32 \cup {Slot(TRUE, Huge), Slot(TRUE, Tiny), Slot(FALSE, F(0))}

\* the rows of a fixed-length list column of declared length n
FixedRows(n) ==
    {None} \cup {Some(PrimitiveArray(Float32, sl)) : sl \in VectorSlots(n, Lasts32)}

\* the rows of a variable-length list column paired with vectors of length n:
\* any vector of that length, or a ramp of another length
ListRows(n, maxlen) ==
    {None}
        \cup {Some(PrimitiveArray(Float64, sl)) : sl \in VectorSlots(n, Lasts64)}
        \cup {Some(PrimitiveArray(Float64, Ramp(m, 0))) : m \in (0..maxlen) \ {n}}

FixedColumns(rows, n) ==
    {ListArray(FixedSizeList(Float32, n), r) : r \in [1..rows -> FixedRows(n)]}

ListColumns(rows, n, maxlen) ==
    {ListArray(ListOf(Float64), r) : r \in [1..rows -> ListRows(n, maxlen)]}

\* columns of other types, with the rows of a ramp
OtherColumns(rows, n) ==
    { ListArray(FixedSizeList(Float64, n),
                [i \in 1..rows |-> Some(PrimitiveArray(Float64, Ramp(n, 0)))]),
      ListArray(ListOf(Float32),
                [i \in 1..rows |-> Some(PrimitiveArray(Float32, Ramp(n, 0)))]),
      PrimitiveArray(Float32, Ramp(rows, 0)) }

\* a fixed-length 32-bit float column whose rows are all the same ramp
RampColumn(rows, n) ==
    ListArray(FixedSizeList(Float32, n),
              [i \in 1..rows |-> Some(PrimitiveArray(Float32, Ramp(n, 0)))])

(* Calls of the vector distance function *)

\* the planner resolves the type of array_distance(args)
CallReturnType(args) ==
    /\ call = NoCall
    /\ call' = [fn |-> "return_type", args |-> args, result |-> return_type(args)]
    /\ UNCHANGED <<store, table, pushdown, plans, streams, chat>>

\* the engine evaluates array_distance on two operand columns
CallInvoke(args) ==
    /\ call = NoCall
    /\ call' = [fn |-> "invoke", args |-> args, result |-> invoke(args)]
    /\ UNCHANGED <<store, table, pushdown, plans, streams, chat>>

InitDist ==
    /\ store = <<>>
    /\ table = None
    /\ pushdown = [s \in ScanIds |-> None]
    /\ plans = [s \in ScanIds |-> None]
    /\ streams = [s \in ScanIds |-> None]
    /\ call = NoCall
    /\ chat = None

\* one call in a behaviour: the guard stands before the choice of the arguments
NextDist ==
    \/ /\ call = NoCall
       /\ \E args \in TypeLists(MaxVecLen) : CallReturnType(args)
    \* two fixed-length list columns
    \/ /\ call = NoCall
       /\ \E rows \in 0..MaxRows, n \in 0..MaxVecLen, m \in 0..MaxVecLen :
             \E a \in FixedColumns(rows, n), b \in FixedColumns(rows, m) :
                CallInvoke(<<a, b>>)
    \* a fixed-length list column and a variable-length list column
    \/ /\ call = NoCall
       /\ \E rows \in 0..MaxRows, n \in 0..MaxVecLen :
             \E a \in FixedColumns(rows, n), b \in ListColumns(rows, n, MaxVecLen) :
                CallInvoke(<<a, b>>)
    \* an operand of another type
    \/ /\ call = NoCall
       /\ \E rows \in 0..MaxRows, n \in 0..MaxVecLen :
             \E a \in OtherColumns(rows, n) \cup {RampColumn(rows, n)},
                b \in OtherColumns(rows, n) \cup {RampColumn(rows, n)} :
                CallInvoke(<<a, b>>)

SpecDist == InitDist /\ [][NextDist]_vars

----------------------------------------------------------------------------
(* Type resolution of the vector distance function *)

ResolvedPair == call.fn = "return_type" /\ Len(call.args) = 2
IsFixed(type) == type.kind = "FixedSizeList"
IsList(type) == type.kind = "List"
PlanError(result) == ~result.ok /\ result.err.variant = "Plan"
InternalError(result) == ~result.ok /\ result.err.variant = "Internal"

\* C11: for two fixed-length list argument types return_type answers Float32 if
\* and only if both element types are Float32 and the declared lengths are equal,
\* and answers a planning error otherwise; hence every evaluation of two
\* fixed-length operands of different declared lengths is one that type
\* resolution rejects.
C11_FixedPairResolution ==
    /\ (ResolvedPair /\ IsFixed(call.args[1]) /\ IsFixed(call.args[2])) =>
          IF /\ call.args[1].elem = Float32
             /\ call.args[2].elem = Float32
             /\ call.args[1].size = call.args[2].size
          THEN call.result = Ok(Float32)
          ELSE PlanError(call.result)
    /\ (/\ call.fn = "invoke"
        /\ IsFixed(call.args[1].data_type) /\ IsFixed(call.args[2].data_type)
        /\ call.args[1].data_type.size # call.args[2].data_type.size) =>
          PlanError(return_type(<<call.args[1].data_type, call.args[2].data_type>>))

C11_Witness ==
    /\ ResolvedPair
    /\ call.args = <<FixedSizeList(Float32, 1), FixedSizeList(Float32, 2)>>
    /\ PlanError(call.result)

\* the message speaks of the first (second) argument
Names(msg, position) ==
    \E i \in 1..(Len(msg) - 1) : msg[i] = position /\ msg[i + 1] \in {"argument", "arguments"}

\* C12: for a pair of argument types that is neither two fixed-length lists nor
\* a fixed-length list followed by a variable-length list, return_type answers a
\* planning error whose message names the first argument when the first
\* argument is not a fixed-length list, and the second argument when the first
\* is a fixed-length list (so the second is at fault).
C12_ErrorNamesPosition ==
    (/\ ResolvedPair
     /\ ~(IsFixed(call.args[1]) /\ IsFixed(call.args[2]))
     /\ ~(IsFixed(call.args[1]) /\ IsList(call.args[2]))) =>
        /\ PlanError(call.result)
        /\ IF IsFixed(call.args[1])
           THEN Names(call.result.err.msg, "second") /\ ~Names(call.result.err.msg, "first")
           ELSE Names(call.result.err.msg, "first") /\ ~Names(call.result.err.msg, "second")

C12_Witness ==
    /\ ResolvedPair
    /\ call.args = <<ListOf(Float64), Utf8>>
    /\ PlanError(call.result)
    /\ Names(call.result.err.msg, "first")

----------------------------------------------------------------------------
(* Evaluation of the vector distance function *)

Invoked == call.fn = "invoke"
IsListColumn(col) == IsFixed(col.data_type) \/ IsList(col.data_type)

\* a row of the column is absent
HasNullEntry(col) ==
    IsListColumn(col) /\ \E i \in 1..Len(col.rows) : ~col.rows[i].some

\* a vector of the column holds a null element
HasNullElement(col) ==
    /\ IsListColumn(col)
    /\ \E i \in 1..Len(col.rows) :
          /\ col.rows[i].some
          /\ \E j \in 1..Len(col.rows[i].val.slots) : ~col.rows[i].val.slots[j].valid

\* C13: invoke answers an internal error whenever an operand holds a null vector
\* entry or a vector with a null element, so it returns a column only when
\* neither operand holds either.
C13_NullsRejected ==
    (Invoked /\ \E k \in 1..2 : HasNullEntry(call.args[k]) \/ HasNullElement(call.args[k])) =>
        InternalError(call.result)

\* a call whose operand types are a fixed-length 32-bit float list and a
\* variable-length list
MixedTypes(types) ==
    IsFixed(types[1]) /\ types[1].elem = Float32 /\ IsList(types[2])

MixedCall == Invoked /\ MixedTypes(<<call.args[1].data_type, call.args[2].data_type>>)

\* row i is present in both operands, with vectors of different lengths
LengthMismatch(args, i) ==
    /\ args[1].rows[i].some /\ args[2].rows[i].some
    /\ Len(args[1].rows[i].val.slots) # Len(args[2].rows[i].val.slots)

\* both operands pass the decoding that precedes the comparison of the lengths
Decodes(args) ==
    /\ ~HasNullEntry(args[1]) /\ ~HasNullEntry(args[2])
    /\ args[2].data_type.elem = IF IsList(args[2].data_type) THEN Float64 ELSE Float32

FirstMismatch(args) ==
    CHOOSE i \in 1..Len(args[1].rows) :
        LengthMismatch(args, i) /\ \A j \in 1..(i - 1) : ~LengthMismatch(args, j)

Comparable(args) ==
    /\ IsFixed(args[1].data_type) /\ args[1].data_type.elem = Float32
    /\ \/ IsFixed(args[2].data_type) /\ args[2].data_type.elem = Float32
       \/ IsList(args[2].data_type) /\ args[2].data_type.elem = Float64
    /\ \A k \in 1..2 : ~HasNullEntry(args[k]) /\ ~HasNullElement(args[k])
    /\ Len(args[1].rows) = Len(args[2].rows)
    /\ \A i \in 1..Len(args[1].rows) : ~LengthMismatch(args, i)

\* element j of row i of an operand, as a 32-bit float
Element(col, i, j) == as_f32(col.rows[i].val.slots[j].value)

RECURSIVE SquaredDistance(_, _, _, _)
\* the sum over the first j elements of the squared differences of row i
SquaredDistance(a, b, i, j) ==
    IF j = 0
    THEN F(0)
    ELSE Add32(SquaredDistance(a, b, i, j - 1),
               Powi2(Sub32(Element(a, i, j), Element(b, i, j))))

\* C15: for two operand columns of R rows without nulls and with equal vector
\* lengths in every row, invoke returns a column of exactly R values, none of
\* them null, whose value i is the square root of the sum over j of
\* (a_i[j] - b_i[j])^2, computed from row i of both operands only.
C15_RowwiseEuclidean ==
    (Invoked /\ Comparable(call.args)) =>
        /\ call.result.ok
        /\ call.result.val.data_type = Float32
        /\ Len(call.result.val.slots) = Len(call.args[1].rows)
        /\ \A i \in 1..Len(call.args[1].rows) :
              /\ call.result.val.slots[i].valid
              /\ call.result.val.slots[i].value =
                    Sqrt32(SquaredDistance(call.args[1], call.args[2], i,
                                           Len(call.args[1].rows[i].val.slots)))

C15_Witness ==
    /\ Invoked /\ Comparable(call.args)
    /\ Len(call.args[1].rows) = 2
    /\ call.args[1].rows[1] = call.args[2].rows[1]
    /\ call.result.ok
    /\ call.result.val.slots = <<Slot(TRUE, F(0)), Slot(TRUE, Root(18))>>

\* invoke(v, v) on a fixed-length 32-bit float list column without nulls
SelfCall ==
    /\ Invoked
    /\ call.args[1] = call.args[2]
    /\ IsFixed(call.args[1].data_type) /\ call.args[1].data_type.elem = Float32
    /\ ~HasNullEntry(call.args[1]) /\ ~HasNullElement(call.args[1])

\* every element of row i is a finite number
FiniteRow(col, i) ==
    \A j \in 1..Len(col.rows[i].val.slots) : col.rows[i].val.slots[j].value.k = "fin"

OneValuePerRow ==
    /\ call.result.ok
    /\ Len(call.result.val.slots) = Len(call.args[1].rows)
    /\ \A i \in 1..Len(call.args[1].rows) : call.result.val.slots[i].valid

\* C16 as stated: for every fixed-length 32-bit float list column v without
\* nulls, invoke(v, v) returns one value per row and every value is exactly 0.
C16_SelfDistanceZero ==
    SelfCall =>
        /\ OneValuePerRow
        /\ \A i \in 1..Len(call.args[1].rows) : call.result.val.slots[i].value = F(0)

\* C16, amended: for every fixed-length 32-bit float list column v without
\* nulls, invoke(v, v) returns one value per row; the value of a row whose
\* elements are all finite is exactly 0, and the value of a row that holds a NaN
\* or an infinite element is NaN.
C16_SelfDistanceZeroIfFinite ==
    SelfCall =>
        /\ OneValuePerRow
        /\ \A i \in 1..Len(call.args[1].rows) :
              call.result.val.slots[i].value =
                  IF FiniteRow(call.args[1], i) THEN F(0) ELSE NaN

C16_Witness ==
    /\ SelfCall
    /\ Len(call.args[1].rows) = 2
    /\ call.args[1].data_type.size = 2
    /\ FiniteRow(call.args[1], 1) /\ call.args[1].rows[1].val.slots[2].value = F(4)
    /\ ~FiniteRow(call.args[1], 2)
    /\ call.result.ok
    /\ call.result.val.slots = <<Slot(TRUE, F(0)), Slot(TRUE, NaN)>>

\* a 32-bit and a 64-bit float are the same number
SameNumber(x, y) == x.k \notin {"huge", "tiny"} /\ y.k \notin {"huge", "tiny"} /\ x = y

\* the two columns hold the same values: the same rows absent, and row by row
\* vectors of the same length with the same elements null and the same numbers
\* elsewhere
SameValues(b, c) ==
    /\ Len(b.rows) = Len(c.rows)
    /\ \A i \in 1..Len(b.rows) :
          /\ b.rows[i].some = c.rows[i].some
          /\ b.rows[i].some =>
                /\ Len(b.rows[i].val.slots) = Len(c.rows[i].val.slots)
                /\ \A j \in 1..Len(b.rows[i].val.slots) :
                      /\ b.rows[i].val.slots[j].valid = c.rows[i].val.slots[j].valid
                      /\ b.rows[i].val.slots[j].valid =>
                            SameNumber(b.rows[i].val.slots[j].value,
                                       c.rows[i].val.slots[j].value)

\* a call on a fixed-length 32-bit float column and a variable-length 64-bit
\* float list column
LiteralCall ==
    /\ MixedCall
    /\ call.args[2].data_type.elem = Float64

\* the fixed-length 32-bit float columns that hold the values of the column
FixedTwins(col) ==
    UNION { {b \in FixedColumns(Len(col.rows), m) : SameValues(b, col)} : m \in 0..MaxVecLen }

\* C17: for a fixed-length 32-bit float column a and a second operand given as a
\* variable-length 64-bit float list column, invoke returns what it returns for
\* a and any fixed-length 32-bit float column that holds the same values.
C17_LiteralPathAgrees ==
    LiteralCall =>
        \A b \in FixedTwins(call.args[2]) : invoke(<<call.args[1], b>>) = call.result

----------------------------------------------------------------------------
(* The limit of a scan *)

\* C18: for any limit L given to the scan, L = 0 included, whatever the listing
\* and the pattern, the rows emitted so far never number more than L.
C18_RowsWithinLimit ==
    \A s \in ScanIds :
        (Streaming(s) /\ Limit(s).some) =>
            Len(Batches(Stream(s).outputs)) <= Limit(s).val

\* C19: with a pattern and a limit N the rows emitted so far are the first
\* descriptors of the listing that pass the filename filter, in listing order and
\* never more than N of them, and a scan that has ended has emitted the first N
\* of them, or all of them when fewer than N pass: a discarded descriptor does
\* not count.
C19_FirstNMatching ==
    \A s \in ScanIds :
        (Streaming(s) /\ Pattern(s).some /\ Limit(s).some) =>
            /\ IsPrefix(EmittedRows(s), RowsOf(MatchingOf(Listing(s), Pattern(s))))
            /\ Len(EmittedRows(s)) <= Limit(s).val
            /\ Stream(s).ended =>
                  Len(EmittedRows(s)) = Min(Limit(s).val, NumMatching(Listing(s), Pattern(s)))

----------------------------------------------------------------------------
(* Scans with a column projection *)

\* <ObjectStoreMetadataExec as ExecutionPlan>::schema
ExecutionPlan_schema(p) == p.projected_schema

\* the projections of the engine: none, all five columns, a single column, two
\* columns in another order, no column
ProjectionInputs ==
    {None, Some(<<0, 1, 2, 3, 4>>), Some(<<0>>), Some(<<2, 0>>), Some(<<>>)}

InitProj ==
    /\ store \in Listings(MaxLenConc)
    /\ table = Some([prefix |-> None, filename_regex |-> None,
                     result |-> try_new(StoreHandle, None, None)])
    /\ pushdown = [s \in ScanIds |-> None]
    /\ plans = [s \in ScanIds |-> None]
    /\ streams = [s \in ScanIds |-> None]
    /\ call = NoCall
    /\ chat = None

NextProj ==
    \/ \E projection \in ProjectionInputs : Scan(1, projection, <<>>, None)
    \/ Execute(1)
    \/ \E ready \in 0..1 : PollNext(1, ready)

SpecProj == InitProj /\ [][NextProj]_vars

\* C20: whatever projection was passed to scan, every batch that the stream of
\* the plan's execute emits has exactly the columns of the schema the plan
\* reports through schema(): the declared schema restricted to the projection.
C20_BatchHasPlanSchema ==
    \A s \in ScanIds :
        Streaming(s) =>
            /\ Stream(s).schema = ExecutionPlan_schema(plans[s].val)
            /\ \A i \in 1..Len(Stream(s).outputs) :
                  IsBatch(Stream(s).outputs[i]) =>
                      /\ Stream(s).outputs[i].val.schema = ExecutionPlan_schema(plans[s].val)
                      /\ Len(Stream(s).outputs[i].val.columns)
                            = Len(ExecutionPlan_schema(plans[s].val))

----------------------------------------------------------------------------
(***************************************************************************)
(* Model of the chat trait of crates/llms/src/chat/mod.rs: the default     *)
(* Chat::stream and Chat::chat_stream, and the generator behind the stream *)
(* chat_stream returns, driven by a consumer that polls it.  A string is   *)
(* the sequence of its pieces.                                             *)
(***************************************************************************)

MaxItems == 3        \* most items of the stream of the chat model

RECURSIVE Join(_, _)
\* [String]::join(sep)
Join(strings, sep) ==
    IF strings = <<>> THEN <<>>
    ELSE IF Len(strings) = 1 THEN strings[1]
    ELSE strings[1] \o sep \o Join(Tail(strings), sep)

\* Option<String>::unwrap_or_default
unwrap_or_default(opt) == IF opt.some THEN opt.val ELSE <<>>

\* message_to_content
message_to_content(message) ==
    IF message.role = "user"
    THEN IF message.content.kind = "Text"
         THEN message.content.text
         ELSE Join([k \in 1..Len(message.content.parts) |->
                       IF message.content.parts[k].kind = "Text"
                       THEN message.content.parts[k].text
                       ELSE message.content.parts[k].url], <<"\n">>)
    ELSE IF message.role \in {"system", "tool"}
    THEN message.content
    ELSE unwrap_or_default(message.content)

\* Error::FailedToRunModel and its Display
FailedToRunModel(source) == [variant |-> "FailedToRunModel", source |-> source]
to_string(e) == <<"Failed to run the LLM chat model: ">> \o e.source

\* OpenAIError::ApiError(ApiError { message, type: None, param: None, code: None })
ApiError(message) ==
    [variant |-> "ApiError", message |-> message, type |-> None, param |-> None,
     code |-> None]

\* the default Chat::stream: a stream of the one result of run
stream(run_result) == Ok(<<run_result>>)

\* ChatChoiceStream of the chunk number i
ChatChoiceStream(msg, i) ==
    [delta |-> [content |-> Some(unwrap_or_default(msg)), tool_calls |-> None,
                role |-> Some("system"), function_call |-> None],
     index |-> i, finish_reason |-> None, logprobs |-> None]

\* CreateChatCompletionStreamResponse of the chunk number i
CreateChatCompletionStreamResponse(model_id, strm_id, msg, i) ==
    [id |-> model_id \o <<"-">> \o strm_id \o <<"-", ToString(i)>>,
     choices |-> <<ChatChoiceStream(msg, i)>>,
     model |-> model_id, created |-> 0, system_fingerprint |-> None, object |-> "list"]

\* the generator of chat_stream before its first poll
NewChatGen == [pc |-> "start", cursor |-> 0, i |-> 0]

\* `i+=1` after a yielded chunk, on the way back to stream.next()
AfterChunk(g) == IF g.pc = "yielded" THEN [g EXCEPT !.i = g.i + 1] ELSE g

\* a generator that goes on with the next item after it has yielded an error
ChatResume_past_error(g, a, ready) ==
    IF g.pc = "done"
    THEN [g |-> g, out |-> Ended]
    ELSE IF ~ready
    THEN [g |-> [AfterChunk(g) EXCEPT !.pc = "await"], out |-> Pending]
    ELSE IF g.cursor = Len(a.stream)
    THEN [g |-> [AfterChunk(g) EXCEPT !.pc = "done"], out |-> Ended]
    ELSE IF a.stream[g.cursor + 1].ok
    THEN [g |-> [AfterChunk(g) EXCEPT !.pc = "yielded", !.cursor = g.cursor + 1],
          out |-> Item(Ok(CreateChatCompletionStreamResponse(
                             a.model_id, a.strm_id, a.stream[g.cursor + 1].val,
                             AfterChunk(g).i)))]
    ELSE [g |-> [AfterChunk(g) EXCEPT !.pc = "await", !.cursor = g.cursor + 1],
          out |-> Item(Err(ApiError(to_string(a.stream[g.cursor + 1].err))))]

\* one poll of the stream chat_stream returns: the generator runs from where it
\* stopped to its next yield, its end, or a stream.next() that is not ready;
\* `msg?` yields the error and returns, and map_err turns it into an ApiError
ChatResume(g, a, ready) ==
    IF g.pc \in {"done", "yielded_err"}
    THEN [g |-> [g EXCEPT !.pc = "done"], out |-> Ended]
    ELSE IF ~ready
    THEN [g |-> [AfterChunk(g) EXCEPT !.pc = "await"], out |-> Pending]
    ELSE IF g.cursor = Len(a.stream)
    THEN [g |-> [AfterChunk(g) EXCEPT !.pc = "done"], out |-> Ended]
    ELSE IF a.stream[g.cursor + 1].ok
    THEN [g |-> [AfterChunk(g) EXCEPT !.pc = "yielded", !.cursor = g.cursor + 1],
          out |-> Item(Ok(CreateChatCompletionStreamResponse(
                             a.model_id, a.strm_id, a.stream[g.cursor + 1].val,
                             AfterChunk(g).i)))]
    ELSE [g |-> [AfterChunk(g) EXCEPT !.pc = "yielded_err", !.cursor = g.cursor + 1],
          out |-> Item(Err(ApiError(to_string(a.stream[g.cursor + 1].err))))]

\* Chat::chat_stream(req), given what self.stream(prompt) answers and the random
\* stream id
chat_stream(req, stream_result, strm_id) ==
    IF ~stream_result.ok
    THEN Err(ApiError(to_string(stream_result.err)))
    ELSE Ok([args |-> [stream |-> stream_result.val, model_id |-> req.model,
                       strm_id |-> strm_id],
             gen |-> NewChatGen, outputs |-> <<>>, ended |-> FALSE])

\* the prompt chat_stream passes to self.stream
chat_stream_prompt(req) ==
    Join([k \in 1..Len(req.messages) |-> message_to_content(req.messages[k])], <<"\n">>)

(* Inputs of the chat model *)

ChatRequests ==
    { [model |-> <<"llama">>,
       messages |-> << [role |-> "user", content |-> [kind |-> "Text", text |-> <<"hi">>]] >>],
      [model |-> <<"gpt">>,
       messages |-> << [role |-> "system", content |-> <<"be brief">>],
                       [role |-> "user",
                        content |-> [kind |-> "Array",
                                     parts |-> << [kind |-> "Text", text |-> <<"look">>],
                                                  [kind |-> "Image", url |-> <<"http://i">>] >>]],
                       [role |-> "assistant", content |-> None] >>] }

\* the ten random alphanumeric characters of a stream id
StrmIds == { <<"aB3dE6gH9j">>, <<"Zy8Xw7Vu6T">> }

\* what run answers, and what an item of a model's stream can be
RunResults ==
    { Ok(Some(<<"hi">>)), Ok(Some(<<"yo">>)), Ok(None),
      Err(FailedToRunModel(<<"out of memory">>)) }

\* what self.stream(prompt) answers: a failure, the default stream of the one
\* result of run, or the stream of a model that overrides stream
StreamResults(n) ==
    {Err(FailedToRunModel(<<"no model">>))}
        \cup {stream(r) : r \in RunResults}
        \cup {Ok(items) : items \in UNION {[1..k -> RunResults] : k \in 0..n}}

(* Calls of the chat model *)

\* a caller calls chat_stream(req)
ChatStream(req, stream_result, strm_id) ==
    /\ ~chat.some
    /\ chat' = Some([req |-> req, prompt |-> chat_stream_prompt(req),
                     stream_result |-> stream_result,
                     result |-> chat_stream(req, stream_result, strm_id)])
    /\ UNCHANGED <<store, table, pushdown, plans, streams, call>>

\* the caller polls the stream chat_stream returned once
PollChat(ready) ==
    /\ chat.some
    /\ chat.val.result.ok
    /\ \E st \in {chat.val.result.val} : \E r \in {ChatResume(st.gen, st.args, ready)} :
          chat' = Some([chat.val EXCEPT !.result =
                          Ok([st EXCEPT !.gen = r.g,
                                        !.outputs = IF r.out.kind = "item"
                                                    THEN Append(st.outputs, r.out.item)
                                                    ELSE st.outputs,
                                        !.ended = st.ended \/ r.out.kind = "end"])])
    /\ UNCHANGED <<store, table, pushdown, plans, streams, call>>

InitChat ==
    /\ store = <<>>
    /\ table = None
    /\ pushdown = [s \in ScanIds |-> None]
    /\ plans = [s \in ScanIds |-> None]
    /\ streams = [s \in ScanIds |-> None]
    /\ call = NoCall
    /\ chat = None

NextChat ==
    \/ /\ ~chat.some
       /\ \E req \in ChatRequests, stream_result \in StreamResults(MaxItems),
             strm_id \in StrmIds : ChatStream(req, stream_result, strm_id)
    \/ \E ready \in BOOLEAN : PollChat(ready)

SpecChat == InitChat /\ [][NextChat]_vars

----------------------------------------------------------------------------
(* The chunks of chat_stream *)

ChatStreaming == chat.some /\ chat.val.result.ok
ChatStreamOf(c) == c.val.result.val
ChatItems == ChatStreamOf(chat).args.stream
ChatOutputs == ChatStreamOf(chat).outputs

\* position of the first error among the items, or one past their end
FirstErrorOrEnd(items) ==
    CHOOSE n \in 1..(Len(items) + 1) :
        /\ \A j \in 1..(n - 1) : items[j].ok
        /\ n <= Len(items) => ~items[n].ok

\* the number of items chat_stream emits in all: one per item up to the first
\* error, that error included
EmittedInAll(items) == Min(Len(items), FirstErrorOrEnd(items))

\* output j is the chunk of the successful item j: index j - 1, an id that ends
\* in that index, the item's text as content
ChunkOf(out, item, j) ==
    /\ out.ok
    /\ Len(out.val.choices) = 1
    /\ out.val.choices[1].index = j - 1
    /\ out.val.choices[1].delta.content = Some(unwrap_or_default(item.val))
    /\ out.val.id[Len(out.val.id)] = ToString(j - 1)

C21_InOrder ==
    ChatStreaming =>
        /\ Len(ChatOutputs) <= EmittedInAll(ChatItems)
        /\ \A j \in 1..Len(ChatOutputs) :
              IF ChatItems[j].ok
              THEN ChunkOf(ChatOutputs[j], ChatItems[j], j)
              ELSE /\ ~ChatOutputs[j].ok
                   /\ ChatOutputs[j].err = ApiError(to_string(ChatItems[j].err))
        /\ ChatStreamOf(chat).ended => Len(ChatOutputs) = EmittedInAll(ChatItems)

C21_EndsAfterError ==
    (/\ ChatStreaming
     /\ ChatOutputs # <<>>
     /\ ~ChatOutputs[Len(ChatOutputs)].ok
     /\ chat' # chat)
    => /\ ChatStreamOf(chat').outputs = ChatOutputs
       /\ ChatStreamOf(chat').ended

\* C21: the stream of the default chat_stream emits, in order, one chunk per
\* successful item of the underlying stream, chunk number j (from 0) with choice
\* index j and an id that ends in j; at the first error of the underlying stream
\* it emits one error item, and the poll after that reports the end: no later
\* item of the underlying stream gives a chunk.
C21_ChunkPerItemUntilError ==
    /\ []C21_InOrder
    /\ [][C21_EndsAfterError]_vars

C21_Witness ==
    /\ ChatStreaming
    /\ Len(ChatItems) = 3
    /\ ChatItems[1].ok /\ ~ChatItems[2].ok /\ ChatItems[3].ok
    /\ Len(ChatOutputs) = 2
    /\ ChatOutputs[1].ok /\ ChatOutputs[1].val.choices[1].index = 0
    /\ ~ChatOutputs[2].ok
    /\ ChatStreamOf(chat).ended

====
